---- MODULE Spec2Model ----
(***************************************************************************)
(* Model of package session (src/session.go): the provider registry, the   *)
(* Manager and its cookie and token protocols, with one process per        *)
(* calling goroutine.  Strings are sequences of one-character strings.     *)
(***************************************************************************)
EXTENDS Integers, Sequences, FiniteSets, TLC

\* ---------------------------------------------------------------- bounds
NumThreads == 2
MaxRand == 2

Threads == 1..NumThreads
NoThread == 0

\* ------------------------------------------------ strings and conversions
EmptyString == << >>

\* Outcomes of io.ReadFull(rand.Reader, b): a block of random bytes, or an error.
RandBlocks == 0..(MaxRand - 1)
RandErr == -1

\* The URL-safe base64 alphabet (a few of its non-hexadecimal characters).
Base64Alphabet == <<"G", "-", "_", "H", "Z">>

\* base64.URLEncoding.EncodeToString of a 32-byte block: data characters
\* followed by one "=" of padding (32 mod 3 = 2).  The 43 data characters
\* are represented by one.
EncodeToString(b) == <<Base64Alphabet[b + 1], "=">>

HexDigits == {"0", "2", "3", "5", "B", "D"}

\* Any byte other than the ones named in Unhex.
OtherByte == "?"

\* The byte written %XX, for the bytes the model's alphabet has.
Unhex(h1, h2) ==
    CASE h1 = "3" /\ h2 = "D" -> "="
      [] h1 = "2" /\ h2 = "5" -> "%"
      [] h1 = "2" /\ h2 = "B" -> "+"
      [] h1 = "2" /\ h2 = "0" -> " "
      [] OTHER -> OtherByte

EscapeChar(c) ==
    CASE c = " " -> <<"+">>
      [] c = "=" -> <<"%", "3", "D">>
      [] c = "%" -> <<"%", "2", "5">>
      [] c = "+" -> <<"%", "2", "B">>
      [] OTHER -> <<c>>

RECURSIVE QueryEscape(_)
QueryEscape(s) ==
    IF s = << >> THEN << >> ELSE EscapeChar(Head(s)) \o QueryEscape(Tail(s))

\* First pass of url.QueryUnescape: every "%" is followed by two hex digits.
RECURSIVE ValidEscapes(_)
ValidEscapes(s) ==
    IF s = << >> THEN TRUE
    ELSE IF Head(s) = "%"
         THEN /\ Len(s) >= 3
              /\ s[2] \in HexDigits
              /\ s[3] \in HexDigits
              /\ ValidEscapes(SubSeq(s, 4, Len(s)))
         ELSE ValidEscapes(Tail(s))

RECURSIVE Unescaped(_)
Unescaped(s) ==
    IF s = << >> THEN << >>
    ELSE IF Head(s) = "%"
         THEN <<Unhex(s[2], s[3])>> \o Unescaped(SubSeq(s, 4, Len(s)))
         ELSE IF Head(s) = "+"
              THEN <<" ">> \o Unescaped(Tail(s))
              ELSE <<Head(s)>> \o Unescaped(Tail(s))

\* url.QueryUnescape with its error discarded: "" on a malformed escape.
QueryUnescape(s) == IF ValidEscapes(s) THEN Unescaped(s) ELSE EmptyString

\* ------------------------------------------------------------ the state
Names == {"memory", "file"}
Providers == {"p1", "p2"}
NilProvider == "nil"
CookieNames == {"gosessionid", "sid"}
Lifetimes == {60, 3600}

VARIABLES
    provides,   \* the registry: provider name -> Provider
    regCall,    \* the latest Register call and how it ended
    manager,    \* the Manager NewManager returned, NoManager before that
    nmCall,     \* the latest NewManager call and the error it returned
    lock,       \* manager.lock: the goroutine holding it, NoThread when free
    store,      \* the sessions the Manager's provider holds, by id
    pc,         \* where each goroutine is in the operation it runs
    local,      \* the parameters, locals and effects of the running operation
    lastApi     \* history: the session the latest ApiSessionStart without token returned

vars == <<provides, regCall, manager, nmCall, lock, store, pc, local, lastApi>>

NoManager == [provider |-> NilProvider, cookieName |-> "", maxlifetime |-> 0]
NoCall == [name |-> "", provider |-> NilProvider, result |-> "none"]
NoNewManager == [name |-> "", cookieName |-> "", maxlifetime |-> 0, err |-> "none"]

\* ------------------------------------------------------- provider registry
\* Register without the duplicate check: a second registration overwrites.
RegisterOverwrite(name, provider) ==
    /\ IF provider = NilProvider
       THEN /\ regCall' = [name |-> name, provider |-> provider, result |-> "panic: provider is nil"]
            /\ UNCHANGED provides
       ELSE /\ regCall' = [name |-> name, provider |-> provider, result |-> "ok"]
            /\ provides' = [n \in DOMAIN provides \cup {name} |->
                               IF n = name THEN provider ELSE provides[n]]
    /\ UNCHANGED <<manager, nmCall, lock, store, pc, local, lastApi>>

\* Register without the nil check: a nil provider is stored.
RegisterNil(name, provider) ==
    /\ IF name \in DOMAIN provides
       THEN /\ regCall' = [name |-> name, provider |-> provider, result |-> "panic: called twice"]
            /\ UNCHANGED provides
       ELSE /\ regCall' = [name |-> name, provider |-> provider, result |-> "ok"]
            /\ provides' = [n \in DOMAIN provides \cup {name} |->
                               IF n = name THEN provider ELSE provides[n]]
    /\ UNCHANGED <<manager, nmCall, lock, store, pc, local, lastApi>>

\* func Register(name string, provider Provider)
Register(name, provider) ==
    /\ IF provider = NilProvider
       THEN /\ regCall' = [name |-> name, provider |-> provider, result |-> "panic: provider is nil"]
            /\ UNCHANGED provides
       ELSE IF name \in DOMAIN provides
            THEN /\ regCall' = [name |-> name, provider |-> provider, result |-> "panic: called twice"]
                 /\ UNCHANGED provides
            ELSE /\ regCall' = [name |-> name, provider |-> provider, result |-> "ok"]
                 /\ provides' = [n \in DOMAIN provides \cup {name} |->
                                    IF n = name THEN provider ELSE provides[n]]
    /\ UNCHANGED <<manager, nmCall, lock, store, pc, local, lastApi>>

\* NewManager ignoring ok: an unknown name yields a Manager without provider.
NewManagerUnchecked(provideName, cookieName, maxlifetime) ==
    /\ manager' = [provider |-> IF provideName \in DOMAIN provides
                                THEN provides[provideName] ELSE NilProvider,
                   cookieName |-> cookieName, maxlifetime |-> maxlifetime]
    /\ nmCall' = [name |-> provideName, cookieName |-> cookieName,
                  maxlifetime |-> maxlifetime, err |-> "nil"]
    /\ UNCHANGED <<provides, regCall, lock, store, pc, local, lastApi>>

\* func NewManager(provideName, cookieName string, maxlifetime int64) (*Manager, error)
NewManager(provideName, cookieName, maxlifetime) ==
    /\ IF provideName \notin DOMAIN provides
       THEN /\ manager' = NoManager
            /\ nmCall' = [name |-> provideName, cookieName |-> cookieName,
                          maxlifetime |-> maxlifetime, err |-> "unknown provide"]
       ELSE /\ manager' = [provider |-> provides[provideName], cookieName |-> cookieName,
                           maxlifetime |-> maxlifetime]
            /\ nmCall' = [name |-> provideName, cookieName |-> cookieName,
                          maxlifetime |-> maxlifetime, err |-> "nil"]
    /\ UNCHANGED <<provides, regCall, lock, store, pc, local, lastApi>>

\* ------------------------------------------------- sessions and requests
\* A Session as the Manager sees it: nil, or a handle answering SessionID().
NilSession == [nil |-> TRUE, id |-> EmptyString]
Sess(sid) == [nil |-> FALSE, id |-> sid]

\* The identifiers sessionId() can return.
GeneratedIds == {EncodeToString(b) : b \in RandBlocks} \cup {EmptyString}

\* Values a client sends as cookie value or X-Session-Token: nothing, a
\* malformed escape, an identifier no session has, and issued identifiers.
WireValues ==
    {EmptyString, <<"%", "G">>, <<"Z">>} \cup {QueryEscape(EncodeToString(b)) : b \in RandBlocks}

\* r.Cookie(name): the cookie, or http.ErrNoCookie.
NoCookie == [present |-> FALSE, value |-> EmptyString]
ReqCookies == {NoCookie} \cup {[present |-> TRUE, value |-> v] : v \in WireValues}

\* r.Header.Get: "" when the header is missing.
HeaderGet(h) == IF h.present THEN h.value ELSE EmptyString

\* Session arguments of SessionEnd and ApiSessionEnd.
SessionArgs == {NilSession} \cup {Sess(id) : id \in GeneratedIds}

NoLocal ==
    [op |-> "none", cookie |-> NoCookie, token |-> EmptyString, arg |-> NilSession,
     sid |-> EmptyString, session |-> NilSession, calls |-> << >>, resp |-> << >>]

\* ------------------------------------------------------------ the provider
\* Provider.SessionInit(sid): the session and the store after it, or an error.
SessionInit(st, sid) ==
    {[session |-> Sess(sid), store |-> st \cup {sid}, err |-> FALSE],
     [session |-> NilSession, store |-> st, err |-> TRUE]}

\* Provider.SessionRead(sid): fails for an id it does not hold.
SessionRead(st, sid) ==
    IF sid \in st
    THEN {[session |-> Sess(sid), store |-> st, err |-> FALSE],
          [session |-> NilSession, store |-> st, err |-> TRUE]}
    ELSE {[session |-> NilSession, store |-> st, err |-> TRUE]}

\* Provider.SessionDestroy(sid)
SessionDestroy(st, sid) ==
    {[store |-> st \ {sid}, err |-> FALSE], [store |-> st, err |-> TRUE]}

\* One call the Manager made: its argument, what it returned, and whether the
\* calling goroutine held manager.lock.
Call(fn, sid, ret, err, t) == [fn |-> fn, sid |-> sid, ret |-> ret, err |-> err, held |-> lock = t]

\* ---------------------------------------------------------------- Manager
\* A Lock that does not wait for the holder.
MutexLockNoWait(t) == lock' = t

\* manager.lock.Lock()
MutexLock(t) == lock = NoThread /\ lock' = t

\* defer manager.lock.Unlock()
MutexUnlock(t) == lock' = NoThread

\* func (manager *Manager) sessionId() string, on the outcome of the read
sessionId(rnd) == IF rnd = RandErr THEN EmptyString ELSE EncodeToString(rnd)

SetCookie(resp, name, value, maxAge) ==
    Append(resp, [name |-> name, value |-> value, path |-> "/", httpOnly |-> TRUE,
                  maxAge |-> maxAge])

Registry == UNCHANGED <<provides, regCall, manager, nmCall>>
Frame == Registry /\ UNCHANGED lastApi

\* --- SessionStart(w, r)
SessionStartCall(t) ==
    /\ manager # NoManager
    /\ pc[t] = "idle"
    /\ pc' = [pc EXCEPT ![t] = "ss_lock"]
    /\ local' = [local EXCEPT ![t] = [NoLocal EXCEPT !.op = "SessionStart"]]
    /\ UNCHANGED <<lock, store>> /\ Frame

SessionStartLock(t) ==
    /\ pc[t] = "ss_lock"
    /\ MutexLock(t)
    /\ pc' = [pc EXCEPT ![t] = "ss_cookie"]
    /\ UNCHANGED <<store, local>> /\ Frame

\* cookie, err := r.Cookie(...); the branch; sid in either branch
SessionStartCookie(t) ==
    /\ pc[t] = "ss_cookie"
    /\ \E cookie \in ReqCookies :
         IF ~cookie.present \/ cookie.value = EmptyString
         THEN \E rnd \in RandBlocks \cup {RandErr} :
                /\ local' = [local EXCEPT ![t].cookie = cookie, ![t].sid = sessionId(rnd)]
                /\ pc' = [pc EXCEPT ![t] = "ss_init"]
         ELSE /\ local' = [local EXCEPT ![t].cookie = cookie,
                                        ![t].sid = QueryUnescape(cookie.value)]
              /\ pc' = [pc EXCEPT ![t] = "ss_read"]
    /\ UNCHANGED <<lock, store>> /\ Frame

\* session, _ = manager.provider.SessionInit(sid)
SessionStartInit(t) ==
    /\ pc[t] = "ss_init"
    /\ \E r \in SessionInit(store, local[t].sid) :
         /\ store' = r.store
         /\ local' = [local EXCEPT ![t].session = r.session,
                        ![t].calls = Append(@, Call("SessionInit", local[t].sid, r.session, r.err, t))]
    /\ pc' = [pc EXCEPT ![t] = "ss_set"]
    /\ UNCHANGED lock /\ Frame

\* SessionStart's cookie with the identifier as it is, not query-escaped.
SessionStartSetCookieRaw(t) ==
    /\ pc[t] = "ss_set"
    /\ local' = [local EXCEPT ![t].resp =
                    SetCookie(@, manager.cookieName, local[t].sid, manager.maxlifetime)]
    /\ pc' = [pc EXCEPT ![t] = "ss_ret"]
    /\ UNCHANGED <<lock, store>> /\ Frame

\* http.SetCookie(w, &cookie)
SessionStartSetCookie(t) ==
    /\ pc[t] = "ss_set"
    /\ local' = [local EXCEPT ![t].resp =
                    SetCookie(@, manager.cookieName, QueryEscape(local[t].sid),
                              manager.maxlifetime)]
    /\ pc' = [pc EXCEPT ![t] = "ss_ret"]
    /\ UNCHANGED <<lock, store>> /\ Frame

\* A read that starts a new session under the id when the provider has none.
SessionStartReadOrInit(t) ==
    /\ pc[t] = "ss_read"
    /\ \E r \in SessionRead(store, local[t].sid) :
         IF r.err
         THEN \E i \in SessionInit(r.store, local[t].sid) :
                /\ store' = i.store
                /\ local' = [local EXCEPT ![t].session = i.session,
                               ![t].calls = Append(Append(@,
                                   Call("SessionRead", local[t].sid, r.session, r.err, t)),
                                   Call("SessionInit", local[t].sid, i.session, i.err, t))]
         ELSE /\ store' = r.store
              /\ local' = [local EXCEPT ![t].session = r.session,
                             ![t].calls = Append(@,
                                 Call("SessionRead", local[t].sid, r.session, r.err, t))]
    /\ pc' = [pc EXCEPT ![t] = "ss_ret"]
    /\ UNCHANGED lock /\ Frame

\* session, _ = manager.provider.SessionRead(sid)
SessionStartRead(t) ==
    /\ pc[t] = "ss_read"
    /\ \E r \in SessionRead(store, local[t].sid) :
         /\ store' = r.store
         /\ local' = [local EXCEPT ![t].session = r.session,
                        ![t].calls = Append(@, Call("SessionRead", local[t].sid, r.session, r.err, t))]
    /\ pc' = [pc EXCEPT ![t] = "ss_ret"]
    /\ UNCHANGED lock /\ Frame

\* return session, and the deferred Unlock
SessionStartReturn(t) ==
    /\ pc[t] = "ss_ret"
    /\ MutexUnlock(t)
    /\ pc' = [pc EXCEPT ![t] = "idle"]
    /\ local' = [local EXCEPT ![t] = NoLocal]
    /\ UNCHANGED store /\ Frame

\* --- SessionEnd(w, s)
SessionEndCall(t) ==
    /\ manager # NoManager
    /\ pc[t] = "idle"
    /\ local' = [local EXCEPT ![t] = [NoLocal EXCEPT !.op = "SessionEnd"]]
    /\ pc' = [pc EXCEPT ![t] = "se_lock"]
    /\ UNCHANGED <<lock, store>> /\ Frame

SessionEndLock(t) ==
    /\ pc[t] = "se_lock"
    /\ MutexLock(t)
    /\ pc' = [pc EXCEPT ![t] = "se_sid"]
    /\ UNCHANGED <<store, local>> /\ Frame

\* sid := s.SessionID(), s being the session the caller passed: a nil s panics
SessionEndSid(t) ==
    /\ pc[t] = "se_sid"
    /\ \E s \in SessionArgs :
         IF s.nil
         THEN /\ pc' = [pc EXCEPT ![t] = "se_panic"]
              /\ local' = [local EXCEPT ![t].arg = s]
         ELSE /\ pc' = [pc EXCEPT ![t] = "se_set"]
              /\ local' = [local EXCEPT ![t].arg = s, ![t].sid = s.id]
    /\ UNCHANGED <<lock, store>> /\ Frame

\* SessionEnd's cookie with MaxAge 0, which net/http sends without Max-Age.
SessionEndSetCookieZero(t) ==
    /\ pc[t] = "se_set"
    /\ local' = [local EXCEPT ![t].resp =
                    SetCookie(@, manager.cookieName, QueryEscape(local[t].sid), 0)]
    /\ pc' = [pc EXCEPT ![t] = "se_destroy"]
    /\ UNCHANGED <<lock, store>> /\ Frame

\* SessionEnd expiring the cookie by way of the Manager's lifetime field.
SessionEndSetCookieViaManager(t) ==
    /\ pc[t] = "se_set"
    /\ manager' = [manager EXCEPT !.maxlifetime = -1]
    /\ local' = [local EXCEPT ![t].resp =
                    SetCookie(@, manager.cookieName, QueryEscape(local[t].sid), -1)]
    /\ pc' = [pc EXCEPT ![t] = "se_destroy"]
    /\ UNCHANGED <<lock, store, provides, regCall, nmCall, lastApi>>

\* http.SetCookie(w, &cookie) with MaxAge: -1
SessionEndSetCookie(t) ==
    /\ pc[t] = "se_set"
    /\ local' = [local EXCEPT ![t].resp =
                    SetCookie(@, manager.cookieName, QueryEscape(local[t].sid), -1)]
    /\ pc' = [pc EXCEPT ![t] = "se_destroy"]
    /\ UNCHANGED <<lock, store>> /\ Frame

\* A destroy called with the cookie's value, the escaped id.
SessionEndDestroyEscaped(t) ==
    /\ pc[t] = "se_destroy"
    /\ \E r \in SessionDestroy(store, QueryEscape(local[t].sid)) :
         /\ store' = r.store
         /\ local' = [local EXCEPT
                        ![t].calls = Append(@, Call("SessionDestroy", QueryEscape(local[t].sid),
                                                    NilSession, r.err, t))]
    /\ pc' = [pc EXCEPT ![t] = "se_ret"]
    /\ UNCHANGED lock /\ Frame

\* err := manager.provider.SessionDestroy(sid); the error is only logged
SessionEndDestroy(t) ==
    /\ pc[t] = "se_destroy"
    /\ \E r \in SessionDestroy(store, local[t].sid) :
         /\ store' = r.store
         /\ local' = [local EXCEPT
                        ![t].calls = Append(@, Call("SessionDestroy", local[t].sid, NilSession, r.err, t))]
    /\ pc' = [pc EXCEPT ![t] = "se_ret"]
    /\ UNCHANGED lock /\ Frame

SessionEndReturn(t) ==
    /\ pc[t] = "se_ret"
    /\ MutexUnlock(t)
    /\ pc' = [pc EXCEPT ![t] = "idle"]
    /\ local' = [local EXCEPT ![t] = NoLocal]
    /\ UNCHANGED store /\ Frame

\* A panic that leaves the function with the lock still taken, as an Unlock
\* that is not deferred would.
SessionEndPanicLocked(t) ==
    /\ pc[t] = "se_panic"
    /\ pc' = [pc EXCEPT ![t] = "idle"]
    /\ local' = [local EXCEPT ![t] = NoLocal]
    /\ UNCHANGED <<lock, store>> /\ Frame

\* the panic unwinds through the deferred Unlock
SessionEndPanic(t) ==
    /\ pc[t] = "se_panic"
    /\ MutexUnlock(t)
    /\ pc' = [pc EXCEPT ![t] = "idle"]
    /\ local' = [local EXCEPT ![t] = NoLocal]
    /\ UNCHANGED store /\ Frame

\* An ApiSessionStart that takes the lock before it tests the token, and so
\* calls ApiSessionCreate with the lock held.
ApiSessionStartCallLocked(t) ==
    /\ manager # NoManager
    /\ pc[t] = "idle"
    /\ \E h \in ReqCookies :
         LET sid == QueryUnescape(HeaderGet(h)) IN
         /\ local' = [local EXCEPT ![t] = [NoLocal EXCEPT !.op = "ApiSessionStart",
                                             !.token = HeaderGet(h), !.sid = sid]]
         /\ pc' = [pc EXCEPT ![t] = IF sid = EmptyString THEN "ac_lock" ELSE "as_lock"]
         /\ IF sid = EmptyString THEN MutexLock(t) ELSE UNCHANGED lock
    /\ UNCHANGED store /\ Frame

\* --- ApiSessionStart(r): the header is read and unescaped before any lock
ApiSessionStartCall(t) ==
    /\ manager # NoManager
    /\ pc[t] = "idle"
    /\ \E h \in ReqCookies :
         LET sid == QueryUnescape(HeaderGet(h)) IN
         /\ local' = [local EXCEPT ![t] = [NoLocal EXCEPT !.op = "ApiSessionStart",
                                             !.token = HeaderGet(h), !.sid = sid]]
         /\ pc' = [pc EXCEPT ![t] = IF sid = EmptyString THEN "ac_lock" ELSE "as_lock"]
    /\ UNCHANGED <<lock, store>> /\ Frame

ApiSessionStartLock(t) ==
    /\ pc[t] = "as_lock"
    /\ MutexLock(t)
    /\ pc' = [pc EXCEPT ![t] = "as_read"]
    /\ UNCHANGED <<store, local>> /\ Frame

\* A read that creates the session when the provider does not find it.
ApiSessionStartReadOrInit(t) ==
    /\ pc[t] = "as_read"
    /\ \E r \in SessionRead(store, local[t].sid) :
         IF r.err
         THEN \E i \in SessionInit(r.store, local[t].sid) :
                /\ store' = i.store
                /\ local' = [local EXCEPT ![t].session = i.session,
                               ![t].calls = Append(Append(@,
                                   Call("SessionRead", local[t].sid, r.session, r.err, t)),
                                   Call("SessionInit", local[t].sid, i.session, i.err, t))]
         ELSE /\ store' = r.store
              /\ local' = [local EXCEPT ![t].session = r.session,
                             ![t].calls = Append(@,
                                 Call("SessionRead", local[t].sid, r.session, r.err, t))]
    /\ pc' = [pc EXCEPT ![t] = "as_ret"]
    /\ UNCHANGED lock /\ Frame

\* session, _ = manager.provider.SessionRead(sid)
ApiSessionStartRead(t) ==
    /\ pc[t] = "as_read"
    /\ \E r \in SessionRead(store, local[t].sid) :
         /\ store' = r.store
         /\ local' = [local EXCEPT ![t].session = r.session,
                        ![t].calls = Append(@, Call("SessionRead", local[t].sid, r.session, r.err, t))]
    /\ pc' = [pc EXCEPT ![t] = "as_ret"]
    /\ UNCHANGED lock /\ Frame

ApiSessionStartReturn(t) ==
    /\ pc[t] = "as_ret"
    /\ MutexUnlock(t)
    /\ pc' = [pc EXCEPT ![t] = "idle"]
    /\ local' = [local EXCEPT ![t] = NoLocal]
    /\ UNCHANGED store /\ Frame

\* --- ApiSessionCreate(), called directly or from ApiSessionStart
ApiSessionCreateCall(t) ==
    /\ manager # NoManager
    /\ pc[t] = "idle"
    /\ local' = [local EXCEPT ![t] = [NoLocal EXCEPT !.op = "ApiSessionCreate"]]
    /\ pc' = [pc EXCEPT ![t] = "ac_lock"]
    /\ UNCHANGED <<lock, store>> /\ Frame

ApiSessionCreateLock(t) ==
    /\ pc[t] = "ac_lock"
    /\ MutexLock(t)
    /\ pc' = [pc EXCEPT ![t] = "ac_sid"]
    /\ UNCHANGED <<store, local>> /\ Frame

\* sid := manager.sessionId()
ApiSessionCreateSid(t) ==
    /\ pc[t] = "ac_sid"
    /\ \E rnd \in RandBlocks \cup {RandErr} :
         local' = [local EXCEPT ![t].sid = sessionId(rnd)]
    /\ pc' = [pc EXCEPT ![t] = "ac_init"]
    /\ UNCHANGED <<lock, store>> /\ Frame

\* A creation that looks the generated id up first and keeps a session found.
ApiSessionCreateInitChecked(t) ==
    /\ pc[t] = "ac_init"
    /\ \E r \in SessionRead(store, local[t].sid) :
         IF r.err
         THEN \E i \in SessionInit(r.store, local[t].sid) :
                /\ store' = i.store
                /\ local' = [local EXCEPT ![t].session = i.session,
                               ![t].calls = Append(Append(@,
                                   Call("SessionRead", local[t].sid, r.session, r.err, t)),
                                   Call("SessionInit", local[t].sid, i.session, i.err, t))]
         ELSE /\ store' = r.store
              /\ local' = [local EXCEPT ![t].session = r.session,
                             ![t].calls = Append(@,
                                 Call("SessionRead", local[t].sid, r.session, r.err, t))]
    /\ pc' = [pc EXCEPT ![t] = "ac_ret"]
    /\ UNCHANGED lock /\ Frame

\* session, _ = manager.provider.SessionInit(sid)
ApiSessionCreateInit(t) ==
    /\ pc[t] = "ac_init"
    /\ \E r \in SessionInit(store, local[t].sid) :
         /\ store' = r.store
         /\ local' = [local EXCEPT ![t].session = r.session,
                        ![t].calls = Append(@, Call("SessionInit", local[t].sid, r.session, r.err, t))]
    /\ pc' = [pc EXCEPT ![t] = "ac_ret"]
    /\ UNCHANGED lock /\ Frame

ApiSessionCreateReturn(t) ==
    /\ pc[t] = "ac_ret"
    /\ MutexUnlock(t)
    /\ pc' = [pc EXCEPT ![t] = "idle"]
    /\ local' = [local EXCEPT ![t] = NoLocal]
    /\ UNCHANGED store /\ Frame

\* The same return, with the returned session recorded in the history variable.
ApiSessionCreateReturnRecorded(t) ==
    /\ pc[t] = "ac_ret"
    /\ MutexUnlock(t)
    /\ pc' = [pc EXCEPT ![t] = "idle"]
    /\ local' = [local EXCEPT ![t] = NoLocal]
    /\ lastApi' = IF local[t].op = "ApiSessionStart" THEN local[t].session ELSE lastApi
    /\ UNCHANGED store /\ Registry

\* --- ApiSessionEnd(session)
ApiSessionEndCall(t) ==
    /\ manager # NoManager
    /\ pc[t] = "idle"
    /\ local' = [local EXCEPT ![t] = [NoLocal EXCEPT !.op = "ApiSessionEnd"]]
    /\ pc' = [pc EXCEPT ![t] = "ae_lock"]
    /\ UNCHANGED <<lock, store>> /\ Frame

ApiSessionEndLock(t) ==
    /\ pc[t] = "ae_lock"
    /\ MutexLock(t)
    /\ pc' = [pc EXCEPT ![t] = "ae_sid"]
    /\ UNCHANGED <<store, local>> /\ Frame

\* sid := session.SessionID(), on the session the caller passed: nil panics
ApiSessionEndSid(t) ==
    /\ pc[t] = "ae_sid"
    /\ \E s \in SessionArgs :
         IF s.nil
         THEN /\ pc' = [pc EXCEPT ![t] = "ae_panic"]
              /\ local' = [local EXCEPT ![t].arg = s]
         ELSE /\ pc' = [pc EXCEPT ![t] = "ae_destroy"]
              /\ local' = [local EXCEPT ![t].arg = s, ![t].sid = s.id]
    /\ UNCHANGED <<lock, store>> /\ Frame

\* A destroy whose error is raised instead of logged.
ApiSessionEndDestroyRaise(t) ==
    /\ pc[t] = "ae_destroy"
    /\ \E r \in SessionDestroy(store, local[t].sid) :
         /\ store' = r.store
         /\ local' = [local EXCEPT
                        ![t].calls = Append(@, Call("SessionDestroy", local[t].sid, NilSession, r.err, t))]
         /\ pc' = [pc EXCEPT ![t] = IF r.err THEN "ae_panic" ELSE "ae_ret"]
    /\ UNCHANGED lock /\ Frame

\* err := manager.provider.SessionDestroy(sid); the error is only logged
ApiSessionEndDestroy(t) ==
    /\ pc[t] = "ae_destroy"
    /\ \E r \in SessionDestroy(store, local[t].sid) :
         /\ store' = r.store
         /\ local' = [local EXCEPT
                        ![t].calls = Append(@, Call("SessionDestroy", local[t].sid, NilSession, r.err, t))]
    /\ pc' = [pc EXCEPT ![t] = "ae_ret"]
    /\ UNCHANGED lock /\ Frame

ApiSessionEndReturn(t) ==
    /\ pc[t] = "ae_ret"
    /\ MutexUnlock(t)
    /\ pc' = [pc EXCEPT ![t] = "idle"]
    /\ local' = [local EXCEPT ![t] = NoLocal]
    /\ UNCHANGED store /\ Frame

ApiSessionEndPanic(t) ==
    /\ pc[t] = "ae_panic"
    /\ MutexUnlock(t)
    /\ pc' = [pc EXCEPT ![t] = "idle"]
    /\ local' = [local EXCEPT ![t] = NoLocal]
    /\ UNCHANGED store /\ Frame

\* ---------------------------------------------------------- specification
\* Process start: nothing registered, no Manager.
InitRegistry ==
    /\ provides = << >>
    /\ regCall = NoCall
    /\ manager = NoManager
    /\ nmCall = NoNewManager
    /\ lock = NoThread
    /\ store = {}
    /\ pc = [t \in Threads |-> "idle"]
    /\ local = [t \in Threads |-> NoLocal]
    /\ lastApi = NilSession

NextRegistry ==
    \/ \E name \in Names, provider \in Providers \cup {NilProvider} : Register(name, provider)
    \/ \E name \in Names, cookieName \in CookieNames, maxlifetime \in Lifetimes :
         NewManager(name, cookieName, maxlifetime)

\* Startup: registrations and Manager constructions, one after another.
SpecRegistry == InitRegistry /\ [][NextRegistry]_vars

\* After Register("memory", p1) and NewManager("memory", "gosessionid", 3600).
Init ==
    /\ provides = ("memory" :> "p1")
    /\ regCall = [name |-> "memory", provider |-> "p1", result |-> "ok"]
    /\ manager = [provider |-> "p1", cookieName |-> "gosessionid", maxlifetime |-> 3600]
    /\ nmCall = [name |-> "memory", cookieName |-> "gosessionid", maxlifetime |-> 3600,
                 err |-> "nil"]
    /\ lock = NoThread
    /\ store = {}
    /\ pc = [t \in Threads |-> "idle"]
    /\ local = [t \in Threads |-> NoLocal]
    /\ lastApi = NilSession

NextOther ==
    \/ \E t \in Threads : SessionStartCall(t)
    \/ \E t \in Threads : SessionStartLock(t)
    \/ \E t \in Threads : SessionStartCookie(t)
    \/ \E t \in Threads : SessionStartInit(t)
    \/ \E t \in Threads : SessionStartSetCookie(t)
    \/ \E t \in Threads : SessionStartRead(t)
    \/ \E t \in Threads : SessionStartReturn(t)
    \/ \E t \in Threads : SessionEndCall(t)
    \/ \E t \in Threads : SessionEndLock(t)
    \/ \E t \in Threads : SessionEndSid(t)
    \/ \E t \in Threads : SessionEndSetCookie(t)
    \/ \E t \in Threads : SessionEndDestroy(t)
    \/ \E t \in Threads : SessionEndReturn(t)
    \/ \E t \in Threads : SessionEndPanic(t)
    \/ \E t \in Threads : ApiSessionStartCall(t)
    \/ \E t \in Threads : ApiSessionStartLock(t)
    \/ \E t \in Threads : ApiSessionStartRead(t)
    \/ \E t \in Threads : ApiSessionStartReturn(t)
    \/ \E t \in Threads : ApiSessionCreateCall(t)
    \/ \E t \in Threads : ApiSessionCreateLock(t)
    \/ \E t \in Threads : ApiSessionCreateSid(t)
    \/ \E t \in Threads : ApiSessionCreateInit(t)
    \/ \E t \in Threads : ApiSessionEndCall(t)
    \/ \E t \in Threads : ApiSessionEndLock(t)
    \/ \E t \in Threads : ApiSessionEndSid(t)
    \/ \E t \in Threads : ApiSessionEndDestroy(t)
    \/ \E t \in Threads : ApiSessionEndReturn(t)
    \/ \E t \in Threads : ApiSessionEndPanic(t)

Next ==
    \/ NextOther
    \/ \E t \in Threads : ApiSessionCreateReturn(t)

\* Serving: goroutines calling the Manager's operations concurrently.
Spec == Init /\ [][Next]_vars

NextRecorded ==
    \/ NextOther
    \/ \E t \in Threads : ApiSessionCreateReturnRecorded(t)

\* Serving, with the history variable lastApi kept.
SpecRecorded == Init /\ [][NextRecorded]_vars

\* The step of goroutine t that returns from manager.lock.Lock().
Acquire(t) ==
    \/ SessionStartLock(t)
    \/ SessionEndLock(t)
    \/ ApiSessionStartLock(t)
    \/ ApiSessionCreateLock(t)
    \/ ApiSessionEndLock(t)

\* The steps goroutine t takes between Lock and the deferred Unlock; the
\* Provider calls among them return.
Proceed(t) ==
    \/ SessionStartCookie(t)
    \/ SessionStartInit(t)
    \/ SessionStartSetCookie(t)
    \/ SessionStartRead(t)
    \/ SessionStartReturn(t)
    \/ SessionEndSid(t)
    \/ SessionEndSetCookie(t)
    \/ SessionEndDestroy(t)
    \/ SessionEndReturn(t)
    \/ SessionEndPanic(t)
    \/ ApiSessionStartRead(t)
    \/ ApiSessionStartReturn(t)
    \/ ApiSessionCreateSid(t)
    \/ ApiSessionCreateInit(t)
    \/ ApiSessionCreateReturn(t)
    \/ ApiSessionEndSid(t)
    \/ ApiSessionEndDestroy(t)
    \/ ApiSessionEndReturn(t)
    \/ ApiSessionEndPanic(t)

\* Serving under a fair scheduler. A running goroutine keeps running (weak
\* fairness of Proceed). sync.Mutex hands the lock to a goroutine that has
\* waited for it (starvation mode), so a waiter is not passed over for ever
\* (strong fairness of Acquire). Nothing obliges a caller to call.
SpecFair ==
    /\ Init /\ [][Next]_vars
    /\ \A t \in Threads : WF_vars(Proceed(t)) /\ SF_vars(Acquire(t))

\* The goroutine that runs the process's startup.
Main == 1

NextMain ==
    \/ SessionStartCall(Main)
    \/ SessionStartLock(Main)
    \/ SessionStartCookie(Main)
    \/ SessionStartInit(Main)
    \/ SessionStartSetCookie(Main)
    \/ SessionStartRead(Main)
    \/ SessionStartReturn(Main)
    \/ SessionEndCall(Main)
    \/ SessionEndLock(Main)
    \/ SessionEndSid(Main)
    \/ SessionEndSetCookie(Main)
    \/ SessionEndDestroy(Main)
    \/ SessionEndReturn(Main)
    \/ SessionEndPanic(Main)
    \/ ApiSessionStartCall(Main)
    \/ ApiSessionStartLock(Main)
    \/ ApiSessionStartRead(Main)
    \/ ApiSessionStartReturn(Main)
    \/ ApiSessionCreateCall(Main)
    \/ ApiSessionCreateLock(Main)
    \/ ApiSessionCreateSid(Main)
    \/ ApiSessionCreateInit(Main)
    \/ ApiSessionCreateReturn(Main)
    \/ ApiSessionEndCall(Main)
    \/ ApiSessionEndLock(Main)
    \/ ApiSessionEndSid(Main)
    \/ ApiSessionEndDestroy(Main)
    \/ ApiSessionEndReturn(Main)
    \/ ApiSessionEndPanic(Main)

NextProcess ==
    \/ \E name \in Names, provider \in Providers \cup {NilProvider} : Register(name, provider)
    \/ \E name \in Names, cookieName \in CookieNames, maxlifetime \in Lifetimes :
         manager = NoManager /\ NewManager(name, cookieName, maxlifetime)
    \/ NextMain

\* A whole process: registrations at any time, one Manager constructed, and
\* its operations called one after another by one goroutine.
SpecProcess == InitRegistry /\ [][NextProcess]_vars

\* ------------------------------------------------------------ properties
Range(f) == {f[i] : i \in DOMAIN f}

\* Between Lock and the deferred Unlock.
InCriticalSection(t) ==
    pc[t] \in {"ss_cookie", "ss_init", "ss_set", "ss_read", "ss_ret",
               "se_sid", "se_set", "se_destroy", "se_ret", "se_panic",
               "as_read", "as_ret", "ac_sid", "ac_init", "ac_ret",
               "ae_sid", "ae_destroy", "ae_ret", "ae_panic"}

\* The operation's body is done; only return and the deferred Unlock remain.
Returning(t) == pc[t] \in {"ss_ret", "se_ret", "as_ret", "ac_ret", "ae_ret"}

Panicking(t) == pc[t] \in {"se_panic", "ae_panic"}

\* The operation made exactly one provider call: fn(sid).
OnlyCall(t, fn, sid) ==
    /\ Len(local[t].calls) = 1
    /\ local[t].calls[1].fn = fn
    /\ local[t].calls[1].sid = sid

\* C1: a SessionStart on a request without session cookie sets a cookie with
\* a non-empty value; a SessionStart on a request carrying the cookie value
\* issued for a session the provider still holds reads exactly that id from
\* the provider and returns what the provider returned, a session whose
\* SessionID() is the unescaped cookie value.
C1_CookieRoundTrip ==
    \A t \in Threads :
        pc[t] = "ss_ret" =>
            IF ~local[t].cookie.present
            THEN /\ local[t].resp # << >>
                 /\ \A c \in Range(local[t].resp) : c.value # EmptyString
            ELSE LET v == local[t].cookie.value IN
                 (v # EmptyString /\ QueryEscape(QueryUnescape(v)) = v /\ QueryUnescape(v) \in store) =>
                     /\ OnlyCall(t, "SessionRead", QueryUnescape(v))
                     /\ local[t].session = local[t].calls[1].ret
                     /\ ~local[t].session.nil => local[t].session.id = QueryUnescape(v)

\* C2: once SessionEnd has called SessionDestroy, whether that succeeded or
\* failed, the call is about to return normally and the response holds a
\* cookie named cookieName with negative MaxAge.
C2_SessionEndClearsCookie ==
    \A t \in Threads :
        (local[t].op = "SessionEnd" /\ local[t].calls # << >>) =>
            /\ pc[t] = "se_ret"
            /\ \E c \in Range(local[t].resp) : c.name = manager.cookieName /\ c.maxAge < 0

\* C2 witness: SessionDestroy failed and the deletion cookie is on the response.
C2_Witness ==
    \E t \in Threads :
        /\ pc[t] = "se_ret"
        /\ local[t].calls[1].fn = "SessionDestroy" /\ local[t].calls[1].err
        /\ \E c \in Range(local[t].resp) : c.maxAge < 0

\* C3: an ApiSessionStart whose X-Session-Token is empty or missing runs
\* ApiSessionCreate: one SessionInit with the generated id, no SessionRead,
\* the initialised session returned; and the session it returns has another
\* id than the session the call of this kind before it returned.
C3_EmptyTokenCreatesDistinct ==
    \A t \in Threads :
        (local[t].op = "ApiSessionStart" /\ local[t].token = EmptyString) =>
            /\ pc[t] \in {"ac_lock", "ac_sid", "ac_init", "ac_ret"}
            /\ pc[t] = "ac_ret" =>
                 /\ OnlyCall(t, "SessionInit", local[t].sid)
                 /\ local[t].session = local[t].calls[1].ret
                 /\ ~local[t].session.nil => local[t].session # lastApi

\* C4: at most one goroutine is between Lock and Unlock, that goroutine holds
\* manager.lock, and every provider call was made by the holder of the lock.
C4_MutualExclusion ==
    /\ \A t1, t2 \in Threads : (InCriticalSection(t1) /\ InCriticalSection(t2)) => t1 = t2
    /\ \A t \in Threads : InCriticalSection(t) => lock = t
    /\ \A t \in Threads : \A c \in Range(local[t].calls) : c.held

\* C4 witness: one goroutine has called the provider under the lock while
\* another waits in Lock.
C4_Witness ==
    \E t1, t2 \in Threads :
        /\ t1 # t2
        /\ InCriticalSection(t1) /\ local[t1].calls # << >>
        /\ pc[t2] \in {"ss_lock", "se_lock", "as_lock", "ac_lock", "ae_lock"}

\* C5: session creation never proceeds with the empty identifier: SessionInit
\* is never called with "" and SessionStart sets no cookie with an empty value.
C5_EntropyFailureIsHard ==
    \A t \in Threads :
        /\ \A c \in Range(local[t].calls) : c.fn = "SessionInit" => c.sid # EmptyString
        /\ local[t].op = "SessionStart" => \A c \in Range(local[t].resp) : c.value # EmptyString

\* C6: a Register call for a name already in the registry panics and leaves
\* the registry as it was.
C6_DuplicateRegisterPanics ==
    [][(regCall' # regCall /\ regCall'.name \in DOMAIN provides) =>
          /\ regCall'.result \in {"panic: called twice", "panic: provider is nil"}
          /\ provides' = provides]_vars

\* C6 witness: a second registration with another provider has panicked and
\* the name still maps to the first.
C6_Witness ==
    /\ regCall.result = "panic: called twice"
    /\ regCall.name \in DOMAIN provides
    /\ provides[regCall.name] # regCall.provider

\* C7: a Register call with a nil provider panics, for a registered and for an
\* unregistered name, and leaves the registry as it was.
C7_NilRegisterPanics ==
    [][(regCall' # regCall /\ regCall'.provider = NilProvider) =>
          /\ regCall'.result = "panic: provider is nil"
          /\ provides' = provides]_vars

\* C7 witness: a nil registration of an unregistered name has panicked.
C7_Witness ==
    /\ regCall.provider = NilProvider
    /\ regCall.result = "panic: provider is nil"
    /\ regCall.name \notin DOMAIN provides

\* C8: NewManager returns an error and no Manager exactly when the name is
\* not registered at the call; otherwise no error and a Manager with the
\* provider registered under the name, the cookie name and the lifetime.
C8_NewManagerLookup ==
    [][nmCall' # nmCall =>
          /\ (nmCall'.name \notin DOMAIN provides) <=> (nmCall'.err # "nil")
          /\ (nmCall'.name \notin DOMAIN provides) <=> (manager' = NoManager)
          /\ nmCall'.name \in DOMAIN provides =>
                manager' = [provider |-> provides[nmCall'.name],
                            cookieName |-> nmCall'.cookieName,
                            maxlifetime |-> nmCall'.maxlifetime]]_vars

\* C8 witness: NewManager failed for an unregistered name while another name
\* is registered.
C8_Witness ==
    /\ nmCall.err = "unknown provide"
    /\ manager = NoManager
    /\ nmCall.name \notin DOMAIN provides
    /\ DOMAIN provides # {}

\* The token path of ApiSessionStart: SessionRead once with the unescaped
\* token, no SessionInit, no generated id, the provider's result returned.
ReadsToken(t) ==
    /\ pc[t] \in {"as_lock", "as_read", "as_ret"}
    /\ local[t].sid = QueryUnescape(local[t].token)
    /\ \A c \in Range(local[t].calls) : c.fn = "SessionRead"
    /\ pc[t] = "as_ret" =>
         /\ OnlyCall(t, "SessionRead", QueryUnescape(local[t].token))
         /\ local[t].session = local[t].calls[1].ret
         /\ local[t].calls[1].err => local[t].session.nil

ProviderFailed(t) ==
    /\ local[t].calls # << >>
    /\ local[t].calls[Len(local[t].calls)].err

\* C10: after a provider call that returned an error the operation does not
\* panic, its session result is nil when the call was SessionInit or
\* SessionRead, and it ends by returning with manager.lock released.
C10_ProviderFailureSwallowed ==
    [][\A t \in Threads :
          /\ ProviderFailed(t)' =>
                /\ ~Panicking(t)'
                /\ local'[t].calls[Len(local'[t].calls)].fn \in {"SessionInit", "SessionRead"} =>
                      local'[t].session.nil
          /\ (ProviderFailed(t) /\ pc'[t] = "idle") =>
                /\ Returning(t)
                /\ lock = t
                /\ lock' = NoThread]_vars

\* C10 witness: ApiSessionEnd is returning after SessionDestroy failed.
C10_Witness ==
    \E t \in Threads :
        /\ pc[t] = "ae_ret"
        /\ ProviderFailed(t)

\* The wire value carries the id of a session the provider holds.
CarriesHeld(v) == \E id \in store : v = QueryEscape(id)

\* C11: both transports work on the provider's one set of sessions, whichever
\* operation created them: a SessionStart whose cookie, or an ApiSessionStart
\* whose token, carries the id of a session the provider holds reads that id;
\* a read that succeeds returns the held session with that id; and after a
\* SessionDestroy that succeeded, by SessionEnd or ApiSessionEnd, the
\* provider no longer holds the session, so that no read returns it.
C11_OneStoreTwoTransports ==
    \A t \in Threads :
        /\ (pc[t] \in {"ss_init", "ss_read"} /\ local[t].cookie.present
                /\ CarriesHeld(local[t].cookie.value)) =>
              (pc[t] = "ss_read" /\ local[t].cookie.value = QueryEscape(local[t].sid))
        /\ (local[t].op = "ApiSessionStart" /\ pc[t] \in {"ac_sid", "ac_init", "as_read"}
                /\ CarriesHeld(local[t].token)) =>
              (pc[t] = "as_read" /\ local[t].token = QueryEscape(local[t].sid))
        /\ (pc[t] \in {"ss_ret", "as_ret"} /\ ~local[t].calls[1].err) =>
              (local[t].session = Sess(local[t].sid) /\ local[t].sid \in store)
        /\ (pc[t] \in {"ss_ret", "as_ret"} /\ local[t].calls[1].fn = "SessionRead"
                /\ local[t].sid \notin store) =>
              local[t].session.nil
        /\ (pc[t] \in {"se_ret", "ae_ret"} /\ ~local[t].calls[1].err) =>
              local[t].sid \notin store

\* SessionStart has read the request's cookie.
CookieRead(t) == pc[t] \in {"ss_init", "ss_set", "ss_read", "ss_ret"}

\* C12: a SessionStart that found no cookie, or one with an empty value,
\* generates an identifier, calls SessionInit once with it and nothing else,
\* and then, whether SessionInit succeeded or failed, sets exactly one cookie:
\* cookieName, the query-escaped identifier, Path=/, HttpOnly, MaxAge the
\* Manager's lifetime.
C12_StartWithoutCookieCreates ==
    \A t \in Threads :
        (CookieRead(t) /\ (~local[t].cookie.present \/ local[t].cookie.value = EmptyString)) =>
            /\ pc[t] # "ss_read"
            /\ local[t].sid \in GeneratedIds
            /\ pc[t] = "ss_init" => (local[t].calls = << >> /\ local[t].resp = << >>)
            /\ pc[t] = "ss_set" => (OnlyCall(t, "SessionInit", local[t].sid) /\ local[t].resp = << >>)
            /\ pc[t] = "ss_ret" =>
                 /\ OnlyCall(t, "SessionInit", local[t].sid)
                 /\ local[t].session = local[t].calls[1].ret
                 /\ local[t].resp = << [name |-> manager.cookieName,
                                        value |-> QueryEscape(local[t].sid),
                                        path |-> "/", httpOnly |-> TRUE,
                                        maxAge |-> manager.maxlifetime] >>

\* C12 witness: the cookie arrived with an empty value, SessionInit failed,
\* and the cookie with the escaped new identifier is set.
C12_Witness ==
    \E t \in Threads :
        /\ pc[t] = "ss_ret"
        /\ local[t].cookie.present /\ local[t].cookie.value = EmptyString
        /\ local[t].calls[1].err
        /\ Len(local[t].resp) = 1
        /\ local[t].resp[1].value = QueryEscape(local[t].sid)
        /\ local[t].resp[1].value # local[t].sid

\* C13: a SessionStart that found a cookie with a non-empty value takes the
\* unescaped value as id, calls SessionRead once with it and nothing else,
\* sets no cookie and returns what SessionRead returned: no session when the
\* read failed, the provider's sessions being left as they were.
C13_StartWithCookieReads ==
    [][\A t \in Threads :
          (CookieRead(t)' /\ local'[t].cookie.present
                /\ local'[t].cookie.value # EmptyString) =>
              /\ pc'[t] \in {"ss_read", "ss_ret"}
              /\ local'[t].sid = QueryUnescape(local'[t].cookie.value)
              /\ local'[t].resp = << >>
              /\ pc'[t] = "ss_read" => local'[t].calls = << >>
              /\ pc'[t] = "ss_ret" =>
                   /\ Len(local'[t].calls) = 1
                   /\ local'[t].calls[1].fn = "SessionRead"
                   /\ local'[t].calls[1].sid = QueryUnescape(local'[t].cookie.value)
                   /\ local'[t].session = local'[t].calls[1].ret
                   /\ local'[t].calls[1].err => local'[t].session.nil
              /\ pc[t] = "ss_read" => store' = store]_vars

\* C13 witness: the read of an id the provider does not hold failed; no
\* session is returned and none was created.
C13_Witness ==
    \E t \in Threads :
        /\ pc[t] = "ss_ret"
        /\ local[t].cookie.present /\ local[t].cookie.value # EmptyString
        /\ local[t].calls[1].err
        /\ local[t].session.nil
        /\ local[t].sid \notin store
        /\ local[t].resp = << >>

\* C14: SessionEnd and ApiSessionEnd, given a session, make one provider
\* call, SessionDestroy with that session's id; the call removes at most that
\* session and every other session the provider holds stays.
C14_EndDestroysOnlyItsSession ==
    [][\A t \in Threads :
          /\ pc'[t] \in {"se_lock", "se_sid", "se_set", "se_destroy", "se_panic",
                         "ae_lock", "ae_sid", "ae_destroy", "ae_panic"} =>
                local'[t].calls = << >>
          /\ pc'[t] \in {"se_ret", "ae_ret"} =>
                /\ ~local'[t].arg.nil
                /\ Len(local'[t].calls) = 1
                /\ local'[t].calls[1].fn = "SessionDestroy"
                /\ local'[t].calls[1].sid = local'[t].arg.id
          /\ pc[t] \in {"se_sid", "se_set", "se_destroy", "se_ret", "se_panic",
                        "ae_sid", "ae_destroy", "ae_ret", "ae_panic"} =>
                /\ store' \subseteq store
                /\ store \ store' \subseteq {local[t].arg.id}]_vars

\* C14 witness: SessionEnd destroyed its session and the provider still holds
\* another one.
C14_Witness ==
    \E t \in Threads :
        /\ pc[t] = "se_ret"
        /\ ~local[t].calls[1].err
        /\ local[t].arg.id \notin store
        /\ store # {}

\* C15: the step after generating an identifier, in SessionStart and in
\* ApiSessionCreate, is SessionInit with that identifier, as the first
\* provider call of the operation, whether or not the provider already holds
\* a session with it.
C15_NoCollisionCheck ==
    [][\A t \in Threads :
          (pc[t] \in {"ss_init", "ac_init"} /\ pc'[t] # pc[t]) =>
              /\ local[t].sid \in GeneratedIds
              /\ local[t].calls = << >>
              /\ Len(local'[t].calls) = 1
              /\ local'[t].calls[1].fn = "SessionInit"
              /\ local'[t].calls[1].sid = local[t].sid
              /\ local'[t].calls[1].held]_vars

\* C15 witness: SessionInit was called, and failed, with a generated id whose
\* session the provider holds.
C15_Witness ==
    \E t \in Threads :
        /\ pc[t] = "ac_ret"
        /\ local[t].calls[1].fn = "SessionInit"
        /\ local[t].calls[1].err
        /\ local[t].sid # EmptyString
        /\ local[t].sid \in store

\* C16: every step keeps each registry entry, mapped to the same provider,
\* and a step of NewManager or of a Manager operation leaves the registry as
\* it is.
C16_RegistryAppendOnly ==
    [][/\ \A n \in DOMAIN provides : n \in DOMAIN provides' /\ provides'[n] = provides[n]
       /\ (nmCall' # nmCall \/ manager' # manager \/ pc' # pc \/ local' # local
              \/ lock' # lock \/ store' # store) => provides' = provides]_vars

\* C16 witness: both names are registered, a re-registration with another
\* provider was refused, and the Manager has created a session.
C16_Witness ==
    /\ DOMAIN provides = Names
    /\ regCall.result = "panic: called twice"
    /\ provides[regCall.name] # regCall.provider
    /\ manager # NoManager
    /\ store # {}

\* C17: once constructed, the Manager keeps its provider, cookie name and
\* lifetime, the ones NewManager was called with, through every step of its
\* operations and every Register call, and it has no other field than these
\* (and its lock).
C17_ManagerConfigFixed ==
    [][/\ manager # NoManager => manager' = manager
       /\ manager' # NoManager =>
             /\ DOMAIN manager' = {"provider", "cookieName", "maxlifetime"}
             /\ manager'.provider = provides'[nmCall'.name]
             /\ manager'.cookieName = nmCall'.cookieName
             /\ manager'.maxlifetime = nmCall'.maxlifetime]_vars

\* C17 witness: SessionEnd has run to its return and a Register call has
\* added the other name with another provider than the Manager's.
C17_Witness ==
    /\ manager # NoManager
    /\ pc[Main] = "se_ret"
    /\ regCall.result = "ok"
    /\ regCall.name # nmCall.name
    /\ regCall.provider # manager.provider

\* A goroutine is blocked in manager.lock.Lock().
Waiting(t) == pc[t] \in {"ss_lock", "se_lock", "as_lock", "ac_lock", "ae_lock"}

\* C18: whenever no goroutine is between Lock and Unlock, in particular when
\* no operation is in progress, manager.lock is free; and the step that ends
\* an operation, by return or by the panic of SessionID() on a nil session,
\* releases the lock.
C18_LockReleasedOnEveryExit ==
    [][/\ (\A t \in Threads : ~InCriticalSection(t)') => lock' = NoThread
       /\ \A t \in Threads :
             (InCriticalSection(t) /\ ~InCriticalSection(t)') =>
                 /\ Returning(t) \/ Panicking(t)
                 /\ pc'[t] = "idle"
                 /\ lock = t
                 /\ lock' = NoThread]_vars

\* C18 witness: an end operation called with a nil session is panicking
\* under the lock while a later call waits for the lock.
C18_Witness ==
    \E t1, t2 \in Threads :
        /\ Panicking(t1)
        /\ local[t1].arg.nil
        /\ lock = t1
        /\ Waiting(t2)

\* C19: under SpecFair no goroutine asks for manager.lock while it holds it,
\* and every operation a goroutine has entered ends (by return, or by the
\* panic of an end operation on a nil session).
C19_EveryOperationCompletes ==
    /\ [](\A t \in Threads : Waiting(t) => lock # t)
    /\ \A t \in Threads : (pc[t] # "idle") ~> (pc[t] = "idle")

\* C19 witness: an ApiSessionStart with an empty token is inside
\* ApiSessionCreate with the lock, taken once, while another call waits.
C19_Witness ==
    \E t1, t2 \in Threads :
        /\ local[t1].op = "ApiSessionStart"
        /\ local[t1].sid = EmptyString
        /\ pc[t1] \in {"ac_sid", "ac_init", "ac_ret"}
        /\ lock = t1
        /\ Waiting(t2)

====
